---------------------------- MODULE Spec2Model ----------------------------
(***************************************************************************)
(* A model of wordpress_to_markdown.py: configuration, sitemap location,    *)
(* URL collection, filtering and the per-article loop of main(), together  *)
(* with the pure helpers it calls.                                         *)
(*                                                                         *)
(* Python strings are sequences of one-character strings, so that parsing, *)
(* formatting and regular-expression matching are computed and not         *)
(* assumed.  Python's None is the value None below; Truthy is Python's     *)
(* truth test on an optional string or list.                               *)
(***************************************************************************)
EXTENDS Integers, Sequences, FiniteSets, TLC

None == <<"None">>

Truthy(v) == v # None /\ v # <<>>

(***************************************************************************)
(* Characters                                                              *)
(***************************************************************************)
DigitChars == <<"0","1","2","3","4","5","6","7","8","9">>
LowerChars == <<"a","b","c","d","e","f","g","h","i","j","k","l","m","n","o","p","q","r","s","t","u","v","w","x","y","z">>
UpperChars == <<"A","B","C","D","E","F","G","H","I","J","K","L","M","N","O","P","Q","R","S","T","U","V","W","X","Y","Z">>

Range(s) == {s[i] : i \in 1..Len(s)}

Digits == Range(DigitChars)
Letters == Range(LowerChars) \cup Range(UpperChars)
Uppers == Range(UpperChars)

IsDigit(c) == c \in Digits
IsAlpha(c) == c \in Letters
\* \w of the re module, restricted to ASCII
IsWordChar(c) == IsAlpha(c) \/ IsDigit(c) \/ c = "_"
\* \s of the re module
IsSpaceChar(c) == c \in {" ", "\t", "\n", "\r"}

DigitVal(c) == (CHOOSE i \in 1..10 : DigitChars[i] = c) - 1

LowerChar(c) ==
    IF c \in Uppers
    THEN LowerChars[CHOOSE i \in 1..26 : UpperChars[i] = c]
    ELSE c

\* str.lower()
Lower(s) == [i \in 1..Len(s) |-> LowerChar(s[i])]

AllDigits(s) == \A i \in 1..Len(s) : IsDigit(s[i])

\* s[a..b] as Python slices it: clipped to the string
Slice(s, a, b) ==
    IF a > b \/ a > Len(s) THEN <<>>
    ELSE SubSeq(s, a, IF b > Len(s) THEN Len(s) ELSE b)

RECURSIVE ToInt(_)
ToInt(s) ==
    IF s = <<>> THEN 0
    ELSE ToInt(SubSeq(s, 1, Len(s) - 1)) * 10 + DigitVal(s[Len(s)])

\* the decimal digits of n, zero-padded to width w (%0wd)
RECURSIVE Pad(_, _)
Pad(n, w) ==
    IF w <= 1 /\ n < 10 THEN <<DigitChars[n + 1]>>
    ELSE Pad(n \div 10, w - 1) \o <<DigitChars[(n % 10) + 1]>>

\* index of the first occurrence of a character of cs in s at or after
\* position from, or 0
FindFrom(s, cs, from) ==
    IF \E i \in from..Len(s) : s[i] \in cs
    THEN CHOOSE i \in from..Len(s) :
             s[i] \in cs /\ \A j \in from..(i - 1) : s[j] \notin cs
    ELSE 0

StartsWith(s, p) == Len(s) >= Len(p) /\ SubSeq(s, 1, Len(p)) = p

(***************************************************************************)
(* Calendar dates: a date is <<year, month, day>>; NoDate is the outcome   *)
(* of a parse that raises ValueError.                                      *)
(***************************************************************************)
NoDate == <<>>

IsLeap(y) == (y % 4 = 0 /\ y % 100 # 0) \/ y % 400 = 0

DaysInMonth(y, m) ==
    IF m = 2 THEN (IF IsLeap(y) THEN 29 ELSE 28)
    ELSE IF m \in {4, 6, 9, 11} THEN 30 ELSE 31

ValidDate(y, m, d) ==
    y >= 1 /\ m \in 1..12 /\ d >= 1 /\ d <= DaysInMonth(y, m)

\* date.__ge__
DateGE(a, b) ==
    \/ a[1] > b[1]
    \/ a[1] = b[1] /\ a[2] > b[2]
    \/ a[1] = b[1] /\ a[2] = b[2] /\ a[3] >= b[3]

\* datetime.strptime(s, '%Y-%m-%d').date(): four digits of year, a month
\* and a day of one or two digits, nothing before or after
Strptime(s) ==
    LET h1 == FindFrom(s, {"-"}, 1)
        h2 == IF h1 = 0 THEN 0 ELSE FindFrom(s, {"-"}, h1 + 1)
        ys == Slice(s, 1, h1 - 1)
        ms == Slice(s, h1 + 1, h2 - 1)
        ds0 == Slice(s, h2 + 1, Len(s))
        \* %d also accepts a space in place of the leading zero
        ds == IF Len(ds0) = 2 /\ ds0[1] = " " THEN <<ds0[2]>> ELSE ds0
        shape == /\ h1 = 5 /\ h2 > 0
                 /\ AllDigits(ys)
                 /\ Len(ms) \in {1, 2} /\ AllDigits(ms)
                 /\ Len(ds) \in {1, 2} /\ AllDigits(ds)
                 /\ ~(Len(ds0) = 2 /\ ds0[1] = " " /\ ds0[2] = "0")
    IN  IF shape /\ ValidDate(ToInt(ys), ToInt(ms), ToInt(ds))
        THEN <<ToInt(ys), ToInt(ms), ToInt(ds)>>
        ELSE NoDate

\* str.replace('Z', '+00:00')
RECURSIVE ReplaceZ(_)
ReplaceZ(s) ==
    IF s = <<>> THEN <<>>
    ELSE (IF Head(s) = "Z" THEN <<"+","0","0",":","0","0">> ELSE <<Head(s)>>)
         \o ReplaceZ(Tail(s))

\* HH[:MM[:SS[.fff[fff]]]]
IsoTimeOk(t) ==
    LET two(i) == Len(t) >= i + 1 /\ IsDigit(t[i]) /\ IsDigit(t[i + 1])
        val(i) == ToInt(SubSeq(t, i, i + 1))
    IN  /\ Len(t) \in {2, 5, 8, 12, 15}
        /\ two(1) /\ val(1) < 24
        /\ Len(t) >= 5 => (t[3] = ":" /\ two(4) /\ val(4) < 60)
        /\ Len(t) >= 8 => (t[6] = ":" /\ two(7) /\ val(7) < 60)
        /\ Len(t) >= 12 => (t[9] = "." /\ AllDigits(Slice(t, 10, Len(t))))

\* +HH:MM or -HH:MM
IsoOffsetOk(z) ==
    /\ Len(z) = 6
    /\ z[1] \in {"+", "-"}
    /\ AllDigits(SubSeq(z, 2, 3)) /\ z[4] = ":" /\ AllDigits(SubSeq(z, 5, 6))
    /\ ToInt(SubSeq(z, 2, 3)) < 24 /\ ToInt(SubSeq(z, 5, 6)) < 60

\* datetime.fromisoformat(s).date(): YYYY-MM-DD, then optionally one
\* separator character, a time and a UTC offset; the date is the one
\* written, whatever the offset
FromIsoFormat(s) ==
    LET ys == Slice(s, 1, 4)
        ms == Slice(s, 6, 7)
        ds == Slice(s, 9, 10)
        rest == Slice(s, 12, Len(s))
        sign == FindFrom(rest, {"+", "-"}, 1)
        time == IF sign = 0 THEN rest ELSE Slice(rest, 1, sign - 1)
        offset == IF sign = 0 THEN <<>> ELSE Slice(rest, sign, Len(rest))
        dateShape == /\ Len(s) >= 10
                     /\ AllDigits(ys) /\ s[5] = "-"
                     /\ AllDigits(ms) /\ s[8] = "-"
                     /\ AllDigits(ds)
        tailShape == \/ Len(s) = 10
                     \/ /\ Len(s) > 11
                        /\ IsoTimeOk(time)
                        /\ sign # 0 => IsoOffsetOk(offset)
    IN  IF dateShape /\ tailShape
           /\ ValidDate(ToInt(ys), ToInt(ms), ToInt(ds))
        THEN <<ToInt(ys), ToInt(ms), ToInt(ds)>>
        ELSE NoDate

\* date.strftime('%Y-%m-%d')
StrftimeYmd(dt) == Pad(dt[1], 4) \o <<"-">> \o Pad(dt[2], 2) \o <<"-">> \o Pad(dt[3], 2)

(***************************************************************************)
(* Addresses                                                               *)
(***************************************************************************)
\* urllib.parse.urlparse, as far as main() reads its result: the scheme,
\* the network location and the path
urlparse(u) ==
    LET colon == FindFrom(u, {":"}, 1)
        hasScheme == /\ colon > 1
                     /\ IsAlpha(u[1])
                     /\ \A i \in 1..(colon - 1) :
                            IsAlpha(u[i]) \/ IsDigit(u[i]) \/ u[i] \in {"+", "-", "."}
        r1 == IF hasScheme THEN Slice(u, colon + 1, Len(u)) ELSE u
        hasNetloc == StartsWith(r1, <<"/","/">>)
        delim == FindFrom(r1, {"/", "?", "#"}, 3)
        r2 == IF ~hasNetloc THEN r1
              ELSE IF delim = 0 THEN <<>> ELSE Slice(r1, delim, Len(r1))
        q == FindFrom(r2, {"?", "#"}, 1)
    IN  [scheme |-> IF hasScheme THEN Lower(SubSeq(u, 1, colon - 1)) ELSE <<>>,
         netloc |-> IF ~hasNetloc THEN <<>>
                    ELSE IF delim = 0 THEN Slice(r1, 3, Len(r1))
                    ELSE Slice(r1, 3, delim - 1),
         path |-> IF q = 0 THEN r2 ELSE Slice(r2, 1, q - 1)]

\* str.lstrip('/')
RECURSIVE LStripSlash(_)
LStripSlash(s) ==
    IF s # <<>> /\ Head(s) = "/" THEN LStripSlash(Tail(s)) ELSE s

\* urllib.parse.urljoin(base, ref) for a base that is an origin
\* (scheme://netloc, empty path) and a plain relative path ref
urljoin(base, ref) == base \o <<"/">> \o ref

SITEMAP_SUFFIXES ==
    << <<"/","s","i","t","e","m","a","p","_","i","n","d","e","x",".","x","m","l">>, <<"/","s","i","t","e","m","a","p",".","x","m","l">>, <<"/","p","o","s","t","-","s","i","t","e","m","a","p",".","x","m","l">>,
       <<"/","s","i","t","e","m","a","p","-","p","t","-","p","o","s","t","-","1",".","x","m","l">>, <<"/","s","i","t","e","m","a","p","-","1",".","x","m","l">> >>

\* re: /\d{4}/\d{2}(?:/\d{2})?/ matched at position i of s
ArticlePatternAt(s, i) ==
    /\ Len(s) >= i + 8
    /\ s[i] = "/" /\ AllDigits(SubSeq(s, i + 1, i + 4))
    /\ s[i + 5] = "/" /\ AllDigits(SubSeq(s, i + 6, i + 7))
    /\ \/ /\ Len(s) >= i + 11
          /\ s[i + 8] = "/" /\ AllDigits(SubSeq(s, i + 9, i + 10))
          /\ s[i + 11] = "/"
       \/ s[i + 8] = "/"

\* url_pattern_regex.search(s) is not None
url_pattern_regex(s) == \E i \in 1..Len(s) : ArticlePatternAt(s, i)

\* re: /(\d{4})/(\d{2})/(\d{2})/ matched at position i of s
DatePatternAt(s, i) ==
    /\ Len(s) >= i + 11
    /\ s[i] = "/" /\ AllDigits(SubSeq(s, i + 1, i + 4))
    /\ s[i + 5] = "/" /\ AllDigits(SubSeq(s, i + 6, i + 7))
    /\ s[i + 8] = "/" /\ AllDigits(SubSeq(s, i + 9, i + 10))
    /\ s[i + 11] = "/"

(***************************************************************************)
(* Responses.  A response to a sitemap request is a record                 *)
(*   kind     "none" (fetch_url returned None or empty content),           *)
(*            "malformed" (ET.fromstring raises) or "xml"                  *)
(*   sitemaps the <loc> texts of the root's <sitemap> children, None       *)
(*            where the child has no <loc> text                            *)
(*   urls     <<loc, lastmod>> of the root's <url> children, None where    *)
(*            the element or its text is missing                           *)
(***************************************************************************)
NoXml == [kind |-> "none", sitemaps |-> <<>>, urls |-> <<>>]
MalformedXml == [kind |-> "malformed", sitemaps |-> <<>>, urls |-> <<>>]
Xml(sm, us) == [kind |-> "xml", sitemaps |-> sm, urls |-> us]

\* the positions of s, in order
Positions(s) == [i \in 1..Len(s) |-> i]

\* str.strip()
Strip(s) ==
    IF \A i \in 1..Len(s) : IsSpaceChar(s[i]) THEN <<>>
    ELSE LET a == CHOOSE i \in 1..Len(s) :
                      ~IsSpaceChar(s[i]) /\ \A j \in 1..(i - 1) : IsSpaceChar(s[j])
             b == CHOOSE i \in 1..Len(s) :
                      ~IsSpaceChar(s[i]) /\ \A j \in (i + 1)..Len(s) : IsSpaceChar(s[j])
         IN  SubSeq(s, a, b)

RECURSIVE IndexLocs(_)
IndexLocs(sm) ==
    IF sm = <<>> THEN <<>>
    ELSE (IF Truthy(Head(sm)) THEN <<Strip(Head(sm))>> ELSE <<>>) \o IndexLocs(Tail(sm))

\* parse_sitemap_index: [] for no content and for a parse error
parse_sitemap_index(xml_content) ==
    IF xml_content.kind = "xml" THEN IndexLocs(xml_content.sitemaps) ELSE <<>>

RECURSIVE UrlEntries(_)
UrlEntries(us) ==
    IF us = <<>> THEN <<>>
    ELSE LET url == IF Truthy(Head(us)[1]) THEN Strip(Head(us)[1]) ELSE None
             lastmod == IF Truthy(Head(us)[2]) THEN Strip(Head(us)[2]) ELSE None
         IN  (IF Truthy(url) THEN << <<url, lastmod>> >> ELSE <<>>) \o UrlEntries(Tail(us))

\* parse_url_sitemap: None for no content and for a parse error, else the
\* list of (url, lastmod)
parse_url_sitemap(xml_content) ==
    IF xml_content.kind = "xml" THEN UrlEntries(xml_content.urls) ELSE None

(***************************************************************************)
(* Filtering                                                               *)
(***************************************************************************)
\* KeptByDate keeping only the entries dated after the since-date
KeptByDate_Strict(url, lastmod_str, since_dt, exclude_no_date) ==
    LET article_dt == FromIsoFormat(ReplaceZ(lastmod_str))
    IN  IF ~Truthy(lastmod_str)
        THEN (IF exclude_no_date THEN <<>> ELSE << <<url, None>> >>)
        ELSE IF article_dt = NoDate THEN <<>>
        ELSE IF DateGE(article_dt, since_dt) /\ article_dt # since_dt
        THEN << <<url, lastmod_str>> >>
        ELSE <<>>

\* one iteration of the loop of filter_articles_by_date: what it appends
\* to filtered_data for the entry (url, lastmod_str)
KeptByDate(url, lastmod_str, since_dt, exclude_no_date) ==
    LET article_dt == FromIsoFormat(ReplaceZ(lastmod_str))
    IN  IF ~Truthy(lastmod_str)
        THEN (IF exclude_no_date THEN <<>> ELSE << <<url, None>> >>)
        ELSE IF article_dt = NoDate THEN <<>>
        ELSE IF DateGE(article_dt, since_dt) THEN << <<url, lastmod_str>> >>
        ELSE <<>>

\* the loop of filter_articles_by_date over url_data
RECURSIVE DateFilterLoop(_, _, _)
DateFilterLoop(url_data, since_dt, exclude_no_date) ==
    IF url_data = <<>> THEN <<>>
    ELSE KeptByDate(Head(url_data)[1], Head(url_data)[2], since_dt, exclude_no_date)
         \o DateFilterLoop(Tail(url_data), since_dt, exclude_no_date)

filter_articles_by_date(url_data, since_date_str, exclude_no_date) ==
    IF ~Truthy(since_date_str) THEN url_data
    ELSE IF Strptime(since_date_str) = NoDate THEN url_data
    ELSE DateFilterLoop(url_data, Strptime(since_date_str), exclude_no_date)

\* {url: lastmod for url, lastmod in all_url_data}, as the list of its
\* items: a key keeps the position of its first insertion and takes the
\* value of each later one
RECURSIVE DictItems(_, _)
DictItems(items, pairs) ==
    IF pairs = <<>> THEN items
    ELSE LET k == Head(pairs)[1]
             v == Head(pairs)[2]
             next == IF \E i \in 1..Len(items) : items[i][1] = k
                     THEN [i \in 1..Len(items) |->
                              IF items[i][1] = k THEN <<k, v>> ELSE items[i]]
                     ELSE Append(items, <<k, v>>)
         IN  DictItems(next, Tail(pairs))

unique_url_data_of(all_url_data) == DictItems(<<>>, all_url_data)

\* MatchesDomainAndPattern without the comparison of the host
MatchesDomainAndPattern_AnyHost(url, target_domain) ==
    url_pattern_regex(urlparse(url).path)

\* the test of the domain and article-pattern loop of main()
MatchesDomainAndPattern(url, target_domain) ==
    LET parsed_url == urlparse(url)
    IN  parsed_url.netloc = target_domain /\ url_pattern_regex(parsed_url.path)

\* the domain and article-pattern loop of main()
RECURSIVE DomainPatternLoop(_, _)
DomainPatternLoop(filtered_url_data, target_domain) ==
    IF filtered_url_data = <<>> THEN <<>>
    ELSE (IF MatchesDomainAndPattern(Head(filtered_url_data)[1], target_domain)
          THEN <<Head(filtered_url_data)[1]>> ELSE <<>>)
         \o DomainPatternLoop(Tail(filtered_url_data), target_domain)

(***************************************************************************)
(* Articles.  A response to an article request is a record                 *)
(*   kind      "none" (fetch_url returned None or an empty text) or "html" *)
(*   title     the text of the first h1.entry-title, None without one      *)
(*   hasTime   there is a time.entry-date element                          *)
(*   datetime  its datetime attribute, None without one                    *)
(*   content   the text of the first div.entry-content, None without one   *)
(*   converts  html2text's handle() returns (it raises when FALSE)         *)
(***************************************************************************)
NoHtml ==
    [kind |-> "none", title |-> None, hasTime |-> FALSE, datetime |-> None,
     content |-> None, converts |-> TRUE]

Html(t, ht, dt, c, cv) ==
    [kind |-> "html", title |-> t, hasTime |-> ht, datetime |-> dt,
     content |-> c, converts |-> cv]

\* html2text on a container of plain text: the text and a blank line
Html2Text(content_div) == content_div \o <<"\n","\n">>

\* the date of the first /YYYY/MM/DD/ in the address, None without one
UrlDate(base_url) ==
    IF \E i \in 1..Len(base_url) : DatePatternAt(base_url, i)
    THEN LET i == CHOOSE k \in 1..Len(base_url) :
                      /\ DatePatternAt(base_url, k)
                      /\ \A j \in 1..(k - 1) : ~DatePatternAt(base_url, j)
         IN  SubSeq(base_url, i + 1, i + 4) \o <<"-">> \o SubSeq(base_url, i + 6, i + 7)
             \o <<"-">> \o SubSeq(base_url, i + 9, i + 10)
    ELSE None

\* parse_and_convert_article: <<title, date_str, markdown>>
parse_and_convert_article(html_content, base_url) ==
    IF html_content.kind # "html" THEN <<None, None, None>>
    ELSE LET title == IF html_content.title # None THEN Strip(html_content.title)
                      ELSE <<"U","n","t","i","t","l","e","d"," ","A","r","t","i","c","l","e">>
             dt == FromIsoFormat(ReplaceZ(html_content.datetime))
             date_str ==
                 IF html_content.hasTime /\ html_content.datetime # None
                 THEN (IF dt # NoDate THEN StrftimeYmd(dt) ELSE None)
                 ELSE UrlDate(base_url)
             markdown ==
                 IF html_content.content = None THEN None
                 ELSE IF ~html_content.converts THEN None
                 ELSE Html2Text(html_content.content)
         IN  <<title, date_str, markdown>>

(***************************************************************************)
(* Naming                                                                  *)
(***************************************************************************)
\* re.sub(r'[^\w\-\s]', '', s)
StripSpecials(s) ==
    SelectSeq(s, LAMBDA c : IsWordChar(c) \/ c = "-" \/ IsSpaceChar(c))

\* re.sub(r'\s+', '-', s): one hyphen for each run of white space
SpacesToHyphen(s) ==
    LET first == SelectSeq(Positions(s),
                     LAMBDA i : ~IsSpaceChar(s[i]) \/ i = 1 \/ ~IsSpaceChar(s[i - 1]))
    IN  [k \in 1..Len(first) |->
            IF IsSpaceChar(s[first[k]]) THEN "-" ELSE s[first[k]]]

\* str.strip('-')
StripHyphens(s) ==
    IF \A i \in 1..Len(s) : s[i] = "-" THEN <<>>
    ELSE LET a == CHOOSE i \in 1..Len(s) :
                      s[i] # "-" /\ \A j \in 1..(i - 1) : s[j] = "-"
             b == CHOOSE i \in 1..Len(s) :
                      s[i] # "-" /\ \A j \in (i + 1)..Len(s) : s[j] = "-"
         IN  SubSeq(s, a, b)

\* re.sub(r'-+', '-', s): one hyphen for each run of hyphens
CollapseHyphens(s) ==
    LET first == SelectSeq(Positions(s),
                     LAMBDA i : s[i] # "-" \/ i = 1 \/ s[i - 1] # "-")
    IN  [k \in 1..Len(first) |-> s[first[k]]]

\* s.rsplit('-', 1)[0]
RSplitHyphen(s) ==
    IF \E i \in 1..Len(s) : s[i] = "-"
    THEN SubSeq(s, 1, (CHOOSE i \in 1..Len(s) :
                           s[i] = "-" /\ \A j \in (i + 1)..Len(s) : s[j] # "-") - 1)
    ELSE s

max_len == 180

\* re.match(r'\d{4}-\d{2}-\d{2}', s)
DateShaped(s) ==
    /\ Len(s) >= 10
    /\ AllDigits(SubSeq(s, 1, 4)) /\ s[5] = "-"
    /\ AllDigits(SubSeq(s, 6, 7)) /\ s[8] = "-"
    /\ AllDigits(SubSeq(s, 9, 10))

clean_filename(title, date_str) ==
    LET c1 == Lower(CollapseHyphens(StripHyphens(SpacesToHyphen(StripSpecials(title)))))
        c2 == IF Len(c1) > max_len THEN RSplitHyphen(SubSeq(c1, 1, max_len)) ELSE c1
        cl_title == IF c2 = <<>> THEN <<"u","n","n","a","m","e","d","-","a","r","t","i","c","l","e">> ELSE c2
    IN  IF Truthy(date_str) /\ DateShaped(date_str)
        THEN date_str \o <<"-">> \o cl_title \o <<".","m","d">>
        ELSE cl_title \o <<".","m","d">>

\* what save_markdown writes: the date line, the source line, the heading
\* and the body
FileText(title, date_str, markdown_content, source_url) ==
    [date |-> IF Truthy(date_str) THEN date_str ELSE <<"N","/","A">>,
     source |-> source_url, title |-> title, body |-> markdown_content]

(***************************************************************************)
(* The inputs of a run: the command line, and what the network and the     *)
(* file system answer.                                                     *)
(***************************************************************************)
SiteUrl == <<"h","t","t","p","s",":","/","/","e","x","a","m","p","l","e",".","c","o","m">>
SitemapUrl == <<"h","t","t","p","s",":","/","/","e","x","a","m","p","l","e",".","c","o","m","/","c","u","s","t","o","m","-","s","i","t","e","m","a","p",".","x","m","l">>
ChildSitemapUrl == <<"h","t","t","p","s",":","/","/","e","x","a","m","p","l","e",".","c","o","m","/","p","o","s","t","-","s","i","t","e","m","a","p","1",".","x","m","l">>

UrlA == <<"h","t","t","p","s",":","/","/","e","x","a","m","p","l","e",".","c","o","m","/","2","0","2","4","/","0","3","/","1","0","/","a","/">>
UrlB == <<"h","t","t","p","s",":","/","/","e","x","a","m","p","l","e",".","c","o","m","/","2","0","2","4","/","0","3","/","b","/">>
UrlC == <<"h","t","t","p","s",":","/","/","e","x","a","m","p","l","e",".","c","o","m","/","2","0","2","4","/","0","3","/","1","0","/","c","/">>
UrlAbout == <<"h","t","t","p","s",":","/","/","e","x","a","m","p","l","e",".","c","o","m","/","a","b","o","u","t","/","?","b","a","c","k","=","/","2","0","2","4","/","0","3","/">>
UrlOther == <<"h","t","t","p","s",":","/","/","o","t","h","e","r",".","c","o","m","/","2","0","2","4","/","0","3","/","1","0","/","a","/">>
UrlPort == <<"h","t","t","p","s",":","/","/","e","x","a","m","p","l","e",".","c","o","m",":","4","4","3","/","2","0","2","4","/","0","3","/","1","0","/","a","/">>

\* --url, --sitemap-file and --since-date as argparse delivers them
UrlArgs == {None, SiteUrl, <<"e","x","a","m","p","l","e",".","c","o","m">>}
SitemapFileArgs == {None, SitemapUrl, <<"/","w","p","-","s","i","t","e","m","a","p",".","x","m","l">>}
SinceDateArgs == {None, <<"2","0","2","4","-","0","1","-","1","5">>, <<"2","0","2","4","-","0","2","-","3","0">>}

\* what a sitemap request may be answered with
IndexXml == Xml(<<None, ChildSitemapUrl>>, <<>>)
LeafXml ==
    Xml(<<>>, << <<UrlA, <<" ","2","0","2","4","-","0","1","-","1","5"," ">>>>, <<None, <<"2","0","2","4","-","0","1","-","1","5">>>>,
                 <<UrlOther, <<"2","0","2","4","-","0","1","-","1","5">>>>, <<UrlA, <<"2","0","2","4","-","0","1","-","1","4","T","2","3",":","5","9",":","5","9","Z">>>>,
                 <<UrlAbout, None>> >>)
EmptyXml == Xml(<<>>, <<>>)
SitemapResponses == {NoXml, MalformedXml, IndexXml, LeafXml, EmptyXml}

\* what an article request may be answered with
FullHtml ==
    Html(<<" ","H","e","l","l","o",","," ","W","o","r","l","d","!"," ","2","0","2","4"," ">>, TRUE, <<"2","0","2","4","-","0","3","-","1","0","T","0","8",":","0","0",":","0","0","Z">>, <<"B","o","d","y"," ","t","e","x","t">>, TRUE)
BareHtml == Html(None, FALSE, None, <<"O","t","h","e","r"," ","t","e","x","t">>, TRUE)
NoContentHtml == Html(<<"H","e","l","l","o">>, TRUE, None, None, TRUE)
BrokenHtml == Html(<<"H","e","l","l","o">>, TRUE, <<"1","0"," ","M","a","r","c","h"," ","2","0","2","4">>, <<"B","o","d","y"," ","t","e","x","t">>, FALSE)
ArticleResponses == {NoHtml, FullHtml, BareHtml, NoContentHtml, BrokenHtml}

\* fetch_url: None for a data: address, else whatever the server answers
fetch_url(url, is_xml) ==
    IF StartsWith(url, <<"d","a","t","a",":">>)
    THEN (IF is_xml THEN {NoXml} ELSE {NoHtml})
    ELSE (IF is_xml THEN SitemapResponses ELSE ArticleResponses)

(***************************************************************************)
(* The state of main()                                                     *)
(***************************************************************************)
VARIABLES
    pc,                     \* the position in main()
    args,                   \* [url, sitemap_file, since_date]
    base_url, target_domain, final_sitemap_url,
    sitemaps_to_process, sitemap_found,
    suffix_i,               \* index of the next suffix of the discovery loop
    sitemap_i,              \* index of the next sitemap of the collection loop
    all_url_data, unique_url_data, filtered_url_data, final_urls_to_process,
    article_i,              \* index of the next article of the article loop
    success_count, fail_count,
    files,                  \* the output directory: file name -> text
    exit_line,              \* the line of the sys.exit that ended the run, or 0
    connectivity_checked,   \* check_connectivity has been called
    fetched,                \* the calls of fetch_url so far: <<url, is_xml>>
    last_net,               \* "none", or the latest of "fetch" and "delay"
    back_to_back,           \* some fetch was issued right after another
    results                 \* one record per article processed

vars ==
    <<pc, args, base_url, target_domain, final_sitemap_url, sitemaps_to_process,
      sitemap_found, suffix_i, sitemap_i, all_url_data, unique_url_data,
      filtered_url_data, final_urls_to_process, article_i, success_count,
      fail_count, files, exit_line, connectivity_checked, fetched, last_net,
      back_to_back, results>>

configVars == <<args, base_url, target_domain, final_sitemap_url>>
locateVars == <<sitemaps_to_process, sitemap_found, suffix_i>>
filterVars == <<unique_url_data, filtered_url_data, final_urls_to_process>>
articleVars == <<article_i, success_count, fail_count, files, results>>
netVars == <<fetched, last_net, back_to_back>>

\* the locals of main() before its first statement
Locals ==
    /\ base_url = None /\ target_domain = None /\ final_sitemap_url = None
    /\ sitemaps_to_process = <<>> /\ sitemap_found = FALSE
    /\ suffix_i = 1 /\ sitemap_i = 1
    /\ all_url_data = <<>> /\ unique_url_data = <<>>
    /\ filtered_url_data = <<>> /\ final_urls_to_process = <<>>
    /\ article_i = 1 /\ success_count = 0 /\ fail_count = 0
    /\ files = <<>>
    /\ exit_line = 0 /\ connectivity_checked = FALSE
    /\ fetched = <<>> /\ last_net = "none" /\ back_to_back = FALSE
    /\ results = <<>>

Init ==
    /\ pc = "start"
    /\ args \in [url : UrlArgs, sitemap_file : SitemapFileArgs, since_date : SinceDateArgs]
    /\ Locals

\* sys.exit at the given line
Exit(line) == pc' = "exit" /\ exit_line' = line

\* a call of fetch_url, followed or not by random_delay() before the next
\* statement that touches the network
Fetch(url, is_xml, delayed) ==
    /\ fetched' = Append(fetched, <<url, is_xml>>)
    /\ back_to_back' = (back_to_back \/ last_net = "fetch")
    /\ last_net' = IF delayed THEN "delay" ELSE "fetch"

(***************************************************************************)
(* Lines 261-280: the addresses and the since-date are settled             *)
(***************************************************************************)
Origin(parsed) == parsed.scheme \o <<":","/","/">> \o parsed.netloc

\* since_date_invalid without the validation
since_date_unchecked(a) == FALSE

\* lines 278-280: a since-date is given and strptime rejects it
since_date_invalid(a) == Truthy(a.since_date) /\ Strptime(a.since_date) = NoDate

\* the outcome of lines 261-280: the sys.exit line reached (0 for none) and
\* the three locals
Settle(a) ==
    LET parsed_target_url == urlparse(a.url)
        parsed_sitemap_arg == urlparse(a.sitemap_file)
        urlBad == Truthy(a.url)
                  /\ (parsed_target_url.scheme = <<>> \/ parsed_target_url.netloc = <<>>)
        base1 == IF Truthy(a.url) THEN Origin(parsed_target_url) ELSE None
        domain1 == IF Truthy(a.url) THEN parsed_target_url.netloc ELSE None
        absolute == parsed_sitemap_arg.scheme # <<>> /\ parsed_sitemap_arg.netloc # <<>>
        base2 == IF Truthy(a.sitemap_file) /\ absolute /\ ~Truthy(base1)
                 THEN Origin(parsed_sitemap_arg) ELSE base1
        domain2 == IF Truthy(a.sitemap_file) /\ absolute /\ ~Truthy(base1)
                   THEN parsed_sitemap_arg.netloc ELSE domain1
        final == IF ~Truthy(a.sitemap_file) THEN None
                 ELSE IF absolute THEN a.sitemap_file
                 ELSE IF Truthy(base1) THEN urljoin(base1, LStripSlash(a.sitemap_file))
                 ELSE None
        line == IF urlBad THEN 265
                ELSE IF Truthy(a.sitemap_file) /\ ~absolute /\ ~Truthy(base1) THEN 274
                ELSE IF ~Truthy(a.sitemap_file) /\ ~Truthy(base1) THEN 275
                ELSE IF ~Truthy(domain2) THEN 276
                ELSE IF since_date_invalid(a) THEN 280
                ELSE 0
    IN  [line |-> line, base_url |-> base2, target_domain |-> domain2,
         final_sitemap_url |-> final]

Configure ==
    /\ pc = "start"
    /\ LET s == Settle(args)
       IN  IF s.line # 0
           THEN /\ Exit(s.line)
                /\ UNCHANGED <<base_url, target_domain, final_sitemap_url>>
           ELSE /\ pc' = "connectivity"
                /\ base_url' = s.base_url
                /\ target_domain' = s.target_domain
                /\ final_sitemap_url' = s.final_sitemap_url
                /\ UNCHANGED exit_line
    /\ UNCHANGED <<args, locateVars, sitemap_i, all_url_data, filterVars, articleVars,
                   connectivity_checked, netVars>>

(***************************************************************************)
(* Line 292: the connectivity check                                        *)
(***************************************************************************)
CheckConnectivity ==
    /\ pc = "connectivity"
    /\ connectivity_checked' = TRUE
    /\ \E reachable \in BOOLEAN :
           IF reachable
           THEN /\ pc' = IF Truthy(final_sitemap_url) THEN "explicit" ELSE "discover"
                /\ UNCHANGED exit_line
           ELSE Exit(292)
    /\ UNCHANGED <<configVars, locateVars, sitemap_i, all_url_data, filterVars,
                   articleVars, netVars>>

(***************************************************************************)
(* Lines 300-311: the explicit sitemap                                     *)
(***************************************************************************)
\* what lines 303-310 and 317-323 make of the content fetched: "none" when
\* the fetch gave nothing, "index" when parse_sitemap_index finds child
\* sitemaps, else "leaf" when parse_url_sitemap parses it, else "unparsed"
SitemapKind(xml_content) ==
    IF xml_content.kind = "none" THEN "none"
    ELSE IF parse_sitemap_index(xml_content) # <<>> THEN "index"
    ELSE IF parse_url_sitemap(xml_content) # None THEN "leaf"
    ELSE "unparsed"

\* sitemaps_to_process after the content fetched from sitemap_url
Located(list, sitemap_url, xml_content) ==
    IF SitemapKind(xml_content) = "index" THEN list \o parse_sitemap_index(xml_content)
    ELSE IF SitemapKind(xml_content) = "leaf" THEN Append(list, sitemap_url)
    ELSE list

LocateExplicit ==
    /\ pc = "explicit"
    /\ \E xml_content \in fetch_url(final_sitemap_url, TRUE) :
           /\ Fetch(final_sitemap_url, TRUE, FALSE)
           /\ sitemaps_to_process' =
                  Located(sitemaps_to_process, final_sitemap_url, xml_content)
           /\ sitemap_found' =
                  (sitemap_found \/ SitemapKind(xml_content) \in {"index", "leaf"})
    /\ pc' = "located"
    /\ UNCHANGED <<configVars, suffix_i, sitemap_i, all_url_data, filterVars, articleVars,
                   exit_line, connectivity_checked>>

(***************************************************************************)
(* Lines 314-324: one iteration of the discovery loop                      *)
(***************************************************************************)
\* breaks_discovery breaking at a leaf sitemap as well
breaks_discovery_any(kind) == kind \in {"index", "leaf"}

\* the break of line 319
breaks_discovery(kind) == kind = "index"

\* the random_delay() of line 324
delays_discovery(kind) == kind = "none"

DiscoverStep ==
    /\ pc = "discover"
    /\ suffix_i <= Len(SITEMAP_SUFFIXES)
    /\ LET sitemap_url == urljoin(base_url, LStripSlash(SITEMAP_SUFFIXES[suffix_i]))
       IN  \E xml_content \in fetch_url(sitemap_url, TRUE) :
               LET kind == SitemapKind(xml_content)
               IN  /\ Fetch(sitemap_url, TRUE, delays_discovery(kind))
                   /\ sitemaps_to_process' =
                          Located(sitemaps_to_process, sitemap_url, xml_content)
                   /\ sitemap_found' = (sitemap_found \/ kind \in {"index", "leaf"})
                   /\ pc' = IF breaks_discovery(kind) \/ suffix_i = Len(SITEMAP_SUFFIXES)
                            THEN "located" ELSE "discover"
    /\ suffix_i' = suffix_i + 1
    /\ UNCHANGED <<configVars, sitemap_i, all_url_data, filterVars, articleVars,
                   exit_line, connectivity_checked>>

(***************************************************************************)
(* Lines 325-327: is there a sitemap to process?                           *)
(***************************************************************************)
CheckSitemaps ==
    /\ pc = "located"
    /\ LET found == IF ~Truthy(final_sitemap_url) /\ ~sitemap_found
                       /\ sitemaps_to_process # <<>>
                    THEN TRUE ELSE sitemap_found
       IN  /\ sitemap_found' = found
           /\ IF ~found \/ sitemaps_to_process = <<>>
              THEN Exit(327)
              ELSE pc' = "process" /\ UNCHANGED exit_line
    /\ UNCHANGED <<configVars, sitemaps_to_process, suffix_i, sitemap_i, all_url_data,
                   filterVars, articleVars, connectivity_checked, netVars>>

(***************************************************************************)
(* Lines 330-338: one iteration of the collection loop                     *)
(***************************************************************************)
ProcessSitemap ==
    /\ pc = "process"
    /\ sitemap_i <= Len(sitemaps_to_process)
    /\ LET sitemap_url == sitemaps_to_process[sitemap_i]
       IN  \E xml_content \in fetch_url(sitemap_url, TRUE) :
               LET url_data == parse_url_sitemap(xml_content)
               IN  /\ Fetch(sitemap_url, TRUE, TRUE)
                   /\ all_url_data' = IF xml_content.kind # "none" /\ url_data # None
                                      THEN all_url_data \o url_data
                                      ELSE all_url_data
    /\ sitemap_i' = sitemap_i + 1
    /\ pc' = IF sitemap_i = Len(sitemaps_to_process) THEN "collected" ELSE "process"
    /\ UNCHANGED <<configVars, locateVars, filterVars, articleVars, exit_line,
                   connectivity_checked>>

(***************************************************************************)
(* Lines 340-344: deduplication                                            *)
(***************************************************************************)
\* nothing_collected without the test
nothing_collected_unchecked(url_data) == FALSE

\* the test of line 340
nothing_collected(url_data) == url_data = <<>>

Deduplicate ==
    /\ pc = "collected"
    /\ IF nothing_collected(all_url_data)
       THEN Exit(340) /\ UNCHANGED unique_url_data
       ELSE /\ unique_url_data' = unique_url_data_of(all_url_data)
            /\ pc' = "unique"
            /\ UNCHANGED exit_line
    /\ UNCHANGED <<configVars, locateVars, sitemap_i, all_url_data, filtered_url_data,
                   final_urls_to_process, articleVars, connectivity_checked, netVars>>

(***************************************************************************)
(* Lines 346-347: the date filter                                          *)
(***************************************************************************)
FilterByDate ==
    /\ pc = "unique"
    /\ filtered_url_data' = filter_articles_by_date(unique_url_data, args.since_date, TRUE)
    /\ pc' = "dated"
    /\ UNCHANGED <<configVars, locateVars, sitemap_i, all_url_data, unique_url_data,
                   final_urls_to_process, articleVars, exit_line, connectivity_checked,
                   netVars>>

(***************************************************************************)
(* Lines 349-359: the domain and article-pattern filter                    *)
(***************************************************************************)
FilterByDomainAndPattern ==
    /\ pc = "dated"
    /\ LET final == DomainPatternLoop(filtered_url_data, target_domain)
       IN  /\ final_urls_to_process' = final
           /\ IF final = <<>>
              THEN Exit(359)
              ELSE pc' = "articles" /\ UNCHANGED exit_line
    /\ UNCHANGED <<configVars, locateVars, sitemap_i, all_url_data, unique_url_data,
                   filtered_url_data, articleVars, connectivity_checked, netVars>>

(***************************************************************************)
(* Lines 363-372: one iteration of the article loop                        *)
(***************************************************************************)
\* the directory after open(filepath, 'w') and the writes
WriteFile(dir, filename, text) ==
    [f \in (DOMAIN dir) \cup {filename} |-> IF f = filename THEN text ELSE dir[f]]

save_markdown(filename, title, date_str, markdown_content, source_url) ==
    WriteFile(files, filename, FileText(title, date_str, markdown_content, source_url))

\* has_body without the test of line 368
has_body_unchecked(html_content, md_content) == html_content.kind # "none"

\* lines 366 and 368: the fetch gave a page and the extraction a body
has_body(html_content, md_content) == html_content.kind # "none" /\ Truthy(md_content)

\* CountArticle forgetting to count a failure
CountArticle_FailDropped(saved) ==
    IF saved
    THEN success_count' = success_count + 1 /\ UNCHANGED fail_count
    ELSE UNCHANGED <<success_count, fail_count>>

\* the counting of lines 366, 368, 370 and 371
CountArticle(saved) ==
    IF saved
    THEN success_count' = success_count + 1 /\ UNCHANGED fail_count
    ELSE fail_count' = fail_count + 1 /\ UNCHANGED success_count

ProcessArticle ==
    /\ pc = "articles"
    /\ article_i <= Len(final_urls_to_process)
    /\ LET article_url == final_urls_to_process[article_i]
       IN  \E html_content \in fetch_url(article_url, FALSE) :
               LET parsed == parse_and_convert_article(html_content, article_url)
                   title == parsed[1]
                   article_date_str == parsed[2]
                   md_content == parsed[3]
                   filename == clean_filename(title, article_date_str)
                   converted == has_body(html_content, md_content)
               IN  \* save_markdown returns False when the directory or the
                   \* file cannot be written
                   \E written \in (IF converted THEN BOOLEAN ELSE {FALSE}) :
                       /\ Fetch(article_url, FALSE, TRUE)
                       /\ files' = IF converted /\ written
                                   THEN save_markdown(filename, title, article_date_str,
                                                      md_content, article_url)
                                   ELSE files
                       /\ CountArticle(converted /\ written)
                       /\ results' = Append(results,
                              [url |-> article_url, html |-> html_content,
                               date |-> article_date_str,
                               saved |-> converted /\ written,
                               filename |-> IF converted THEN filename ELSE None])
    /\ article_i' = article_i + 1
    /\ pc' = IF article_i = Len(final_urls_to_process) THEN "done" ELSE "articles"
    /\ UNCHANGED <<configVars, locateVars, sitemap_i, all_url_data, filterVars,
                   exit_line, connectivity_checked>>

Next ==
    \/ Configure
    \/ CheckConnectivity
    \/ LocateExplicit
    \/ DiscoverStep
    \/ CheckSitemaps
    \/ ProcessSitemap
    \/ Deduplicate
    \/ FilterByDate
    \/ FilterByDomainAndPattern
    \/ ProcessArticle

Spec == Init /\ [][Next]_vars

(***************************************************************************)
(* The filters on their own: the run is at line 340, having collected      *)
(* url_data from the explicit sitemap SitemapUrl.                          *)
(***************************************************************************)
MaxEntries == 3
MaxArticles == 2

Collected(since_date, url_data) ==
    /\ args = [url |-> SiteUrl, sitemap_file |-> SitemapUrl, since_date |-> since_date]
    /\ base_url = Settle(args).base_url
    /\ target_domain = Settle(args).target_domain
    /\ final_sitemap_url = Settle(args).final_sitemap_url
    /\ sitemaps_to_process = <<SitemapUrl>> /\ sitemap_found = TRUE
    /\ suffix_i = 1 /\ sitemap_i = 2
    /\ all_url_data = url_data
    /\ article_i = 1 /\ success_count = 0 /\ fail_count = 0
    /\ files = <<>> /\ results = <<>>
    /\ exit_line = 0 /\ connectivity_checked = TRUE
    /\ fetched = << <<SitemapUrl, TRUE>>, <<SitemapUrl, TRUE>> >>
    /\ last_net = "delay" /\ back_to_back = TRUE

\* entries a leaf sitemap may hold, as parse_url_sitemap delivers them
Entries ==
    { <<UrlA, <<"2","0","2","4","-","0","1","-","1","5">>>>, <<UrlA, <<"2","0","2","4","-","0","1","-","1","4","T","2","3",":","5","9",":","5","9","Z">>>>,
      <<UrlB, None>>, <<UrlB, <<"2","0","2","4","-","0","2","-","0","1","T","1","0",":","0","0",":","0","0","+","0","2",":","0","0">>>>,
      <<UrlC, <<"1","5"," ","J","a","n"," ","2","0","2","4">>>>, <<UrlC, <<"2","0","2","4","-","0","1","-","1","4">>>>,
      <<UrlAbout, <<"2","0","2","4","-","0","1","-","1","6">>>>, <<UrlOther, <<"2","0","2","4","-","0","1","-","1","5">>>>,
      <<UrlPort, <<"2","0","2","4","-","0","3","-","0","1","T","0","0",":","3","0",":","0","0","-","0","5",":","0","0">>>> }

SeqsUpTo(S, n) == UNION {[1..k -> S] : k \in 0..n}

InitFilter ==
    /\ pc = "collected"
    /\ \E since_date \in {None, <<"2","0","2","4","-","0","1","-","1","5">>}, url_data \in SeqsUpTo(Entries, MaxEntries) :
           Collected(since_date, url_data)
    /\ unique_url_data = <<>> /\ filtered_url_data = <<>> /\ final_urls_to_process = <<>>

NextFilter ==
    \/ Deduplicate
    \/ FilterByDate
    \/ FilterByDomainAndPattern

SpecFilter == InitFilter /\ [][NextFilter]_vars

(***************************************************************************)
(* The article loop on its own: the run is at line 361 with a worklist of  *)
(* addresses that the explicit sitemap listed without a last-modified date.*)
(***************************************************************************)
ArticleUrls == {UrlA, UrlB, UrlC}

Worklists ==
    {w \in SeqsUpTo(ArticleUrls, MaxArticles) :
        w # <<>> /\ \A i, j \in 1..Len(w) : w[i] = w[j] => i = j}

InitArticles ==
    /\ pc = "articles"
    /\ \E w \in Worklists :
           /\ Collected(None, [i \in 1..Len(w) |-> <<w[i], None>>])
           /\ final_urls_to_process = w
    /\ unique_url_data = unique_url_data_of(all_url_data)
    /\ filtered_url_data = filter_articles_by_date(unique_url_data, args.since_date, TRUE)
    /\ final_urls_to_process = DomainPatternLoop(filtered_url_data, target_domain)

NextArticles == ProcessArticle

SpecArticles == InitArticles /\ [][NextArticles]_vars

(***************************************************************************)
(* Properties                                                              *)
(***************************************************************************)
Addresses(url_data) == [i \in 1..Len(url_data) |-> url_data[i][1]]

\* the position of the first entry of url_data with the given address
FirstIndex(url_data, url) ==
    CHOOSE i \in 1..Len(url_data) :
        url_data[i][1] = url /\ \A j \in 1..(i - 1) : url_data[j][1] # url

NoDuplicates(s) == \A i, j \in 1..Len(s) : s[i] = s[j] => i = j

Count(s, Test(_)) == Len(SelectSeq(s, Test))

ConfigExitLines == {265, 274, 275, 276, 280}

DedupDone ==
    \/ pc \in {"unique", "dated", "articles", "done"}
    \/ pc = "exit" /\ exit_line = 359

DateStageDone ==
    \/ pc \in {"dated", "articles", "done"}
    \/ pc = "exit" /\ exit_line = 359

WorklistDone ==
    \/ pc \in {"articles", "done"}
    \/ pc = "exit" /\ exit_line = 359

\* the calendar date an entry's last-modified value states, NoDate when the
\* value is absent or is no timestamp
LastModifiedDate(e) ==
    IF e[2] = None THEN NoDate ELSE FromIsoFormat(ReplaceZ(e[2]))

DayNumber(dt) == dt[1] * 10000 + dt[2] * 100 + dt[3]

OnOrAfterSince(e) ==
    /\ LastModifiedDate(e) # NoDate
    /\ DayNumber(LastModifiedDate(e)) >= DayNumber(Strptime(args.since_date))

\* C1: once the date stage has run, without a since-date its output is its
\* input unchanged; with a since-date its output is exactly the entries
\* whose last-modified calendar date is on or after the since-date, in
\* their order, and none of them lacks a readable last-modified value.
C1_DateStage ==
    DateStageDone =>
        IF args.since_date = None
        THEN filtered_url_data = unique_url_data
        ELSE /\ filtered_url_data = SelectSeq(unique_url_data, OnOrAfterSince)
             /\ \A i \in 1..Len(filtered_url_data) :
                    LastModifiedDate(filtered_url_data[i]) # NoDate

\* C1 witness: with since-date 2024-01-15, of an entry dated 2024-01-15, an
\* entry dated 2024-01-14 and an entry without a date only the first is kept
C1_Witness ==
    /\ DateStageDone
    /\ args.since_date = <<"2","0","2","4","-","0","1","-","1","5">>
    /\ unique_url_data = << <<UrlA, <<"2","0","2","4","-","0","1","-","1","5">>>>, <<UrlC, <<"2","0","2","4","-","0","1","-","1","4">>>>, <<UrlB, None>> >>
    /\ filtered_url_data = << <<UrlA, <<"2","0","2","4","-","0","1","-","1","5">>>> >>

\* the segments of a path that a slash closes
ClosedSegments(path) ==
    LET slashes == SelectSeq(Positions(path), LAMBDA i : path[i] = "/")
    IN  [k \in 1..(Len(slashes) - 1) |->
            Slice(path, slashes[k] + 1, slashes[k + 1] - 1)]

\* a year segment directly followed by a month segment
HasDatedPath(path) ==
    LET segs == ClosedSegments(path)
    IN  \E k \in 1..(Len(segs) - 1) :
            /\ Len(segs[k]) = 4 /\ AllDigits(segs[k])
            /\ Len(segs[k + 1]) = 2 /\ AllDigits(segs[k + 1])

OnDomainAndDated(e) ==
    /\ urlparse(e[1]).netloc = target_domain
    /\ HasDatedPath(urlparse(e[1]).path)

\* C2: once the worklist is built it is exactly the addresses of the
\* date-filtered entries whose host is the target domain and whose path has
\* a /YYYY/MM/ segment pair, in their order; it has no duplicate, holds only
\* collected addresses and lists them in the order they were first seen.
C2_DomainShapeStage ==
    WorklistDone =>
        /\ final_urls_to_process
               = Addresses(SelectSeq(filtered_url_data, OnDomainAndDated))
        /\ NoDuplicates(final_urls_to_process)
        /\ \A i \in 1..Len(final_urls_to_process) :
               final_urls_to_process[i] \in Range(Addresses(all_url_data))
        /\ \A i, j \in 1..Len(final_urls_to_process) :
               i < j => FirstIndex(all_url_data, final_urls_to_process[i])
                            < FirstIndex(all_url_data, final_urls_to_process[j])

\* C2 witness: two addresses are kept in first-seen order and an address of
\* another host is dropped
C2_Witness ==
    /\ WorklistDone
    /\ final_urls_to_process = <<UrlB, UrlA>>
    /\ Addresses(filtered_url_data) = <<UrlB, UrlOther, UrlA>>

\* C3: the files written are as many as the articles saved, and no two
\* saved articles have the same file name.
C3_OneFilePerArticle ==
    /\ Cardinality(DOMAIN files) = success_count
    /\ \A i, j \in 1..Len(results) :
           (i # j /\ results[i].saved /\ results[j].saved)
               => results[i].filename # results[j].filename

IsArticleFetch(f) == ~f[2]
WasSaved(r) == r.saved
WasNotSaved(r) == ~r.saved

\* C4: in the article loop every address of the worklist is fetched once,
\* in worklist order, and counted once as a success or as a failure; the
\* run does not exit from the loop, and it is done exactly when the counts
\* add up to the length of the worklist.
C4_LoopNeverAborts ==
    /\ pc = "exit" => results = <<>> /\ article_i = 1
    /\ pc \in {"articles", "done"} =>
           /\ Addresses(SelectSeq(fetched, IsArticleFetch))
                  = SubSeq(final_urls_to_process, 1, article_i - 1)
           /\ [i \in 1..Len(results) |-> results[i].url]
                  = SubSeq(final_urls_to_process, 1, article_i - 1)
           /\ success_count = Count(results, WasSaved)
           /\ fail_count = Count(results, WasNotSaved)
           /\ success_count + fail_count = article_i - 1
           /\ (pc = "done") = (success_count + fail_count = Len(final_urls_to_process))

\* C4 witness: the run is done after a failed article followed by a saved one
C4_Witness ==
    /\ pc = "done"
    /\ Len(results) = 2
    /\ ~results[1].saved /\ results[2].saved

\* C5 as stated: once the connectivity check has passed, the run exits only
\* because no sitemap was found or because the worklist is empty.
C5_TwoAbortPoints ==
    (pc = "exit" /\ exit_line \notin ConfigExitLines \cup {292})
        => exit_line \in {327, 359}

\* C5 as amended: the run exits only on a configuration error, on a failed
\* connectivity check, or at one of three points: no sitemap was located
\* and parsed, the sitemaps processed gave no entry at all, or the worklist
\* left by the filters is empty.
C5_ThreeAbortPoints ==
    /\ pc # "exit" => exit_line = 0
    /\ pc = "exit" => exit_line \in ConfigExitLines \cup {292, 327, 340, 359}
    /\ exit_line = 327 => ~sitemap_found /\ sitemaps_to_process = <<>> /\ fetched # <<>>
    /\ exit_line = 340 =>
           /\ sitemap_found /\ sitemaps_to_process # <<>>
           /\ sitemap_i = Len(sitemaps_to_process) + 1
           /\ all_url_data = <<>>
    /\ exit_line = 359 => all_url_data # <<>> /\ final_urls_to_process = <<>>
    /\ pc \in {"articles", "done"} => final_urls_to_process # <<>>

\* C5 witness: a sitemap was located and parsed, and the run exits because
\* collection gave no entry
C5_Witness == pc = "exit" /\ exit_line = 340 /\ sitemap_found

\* an address with a scheme and a host
IsAbsoluteAddress(s) ==
    \E i \in 2..(Len(s) - 3) :
        /\ SubSeq(s, i, i + 2) = <<":","/","/">>
        /\ \A j \in 1..(i - 1) : IsAlpha(s[j])
        /\ s[i + 3] \notin {"/", "?", "#"}

\* YYYY-MM-DD naming a day of the calendar
IsCalendarDate(s) ==
    /\ Len(s) = 10 /\ s[5] = "-" /\ s[8] = "-"
    /\ AllDigits(SubSeq(s, 1, 4)) /\ AllDigits(SubSeq(s, 6, 7)) /\ AllDigits(SubSeq(s, 9, 10))
    /\ ValidDate(ToInt(SubSeq(s, 1, 4)), ToInt(SubSeq(s, 6, 7)), ToInt(SubSeq(s, 9, 10)))

ConfigError(a) ==
    \/ ~Truthy(a.url) /\ ~Truthy(a.sitemap_file)
    \/ Truthy(a.sitemap_file) /\ ~IsAbsoluteAddress(a.sitemap_file) /\ ~Truthy(a.url)
    \/ Truthy(a.url) /\ ~IsAbsoluteAddress(a.url)
    \/ Truthy(a.since_date) /\ ~IsCalendarDate(a.since_date)

\* C6: with neither address given, with a relative sitemap reference and no
\* site address, with an invalid site address or with an invalid since-date
\* the run goes nowhere but to an exit of the configuration lines, and it
\* has made no connectivity check and no fetch.
C6_ConfigErrorsBeforeNetwork ==
    ConfigError(args) =>
        /\ pc \in {"start", "exit"}
        /\ pc = "exit" => exit_line \in ConfigExitLines
        /\ ~connectivity_checked
        /\ fetched = <<>> /\ last_net = "none"

\* C6 witness: the run has exited on an invalid since-date, the addresses
\* being valid
C6_Witness ==
    /\ pc = "exit" /\ exit_line = 280
    /\ args.url = SiteUrl /\ args.since_date = <<"2","0","2","4","-","0","2","-","3","0">>

\* C7: after deduplication no two entries share an address, and each entry
\* has the last-modified value of the first collected entry of its address.
C7_FirstOccurrenceWins ==
    DedupDone =>
        /\ NoDuplicates(Addresses(unique_url_data))
        /\ \A i \in 1..Len(unique_url_data) :
               unique_url_data[i][2]
                   = all_url_data[FirstIndex(all_url_data, unique_url_data[i][1])][2]

InDiscovery ==
    /\ final_sitemap_url = None
    /\ pc \notin {"start", "connectivity"}
    /\ exit_line \notin ConfigExitLines \cup {292}

Candidates ==
    [i \in 1..Len(SITEMAP_SUFFIXES) |->
        urljoin(base_url, LStripSlash(SITEMAP_SUFFIXES[i]))]

IsCandidate(u) == u \in Range(Candidates)
IsNoCandidate(u) == u \notin Range(Candidates)

CandidateIndex(u) == CHOOSE i \in 1..Len(Candidates) : Candidates[i] = u

BodyPresent(html) == html.kind = "html" /\ html.content # None /\ html.converts

HasNoBody(r) == ~BodyPresent(r.html)

\* C9: an article without a body is not saved and is counted as a failure;
\* extraction of a page without content container gives a title and no
\* body; every file written comes from a page that had a body.
C9_NoBodyNoFile ==
    /\ \A i \in 1..Len(results) :
           HasNoBody(results[i]) =>
               /\ ~results[i].saved
               /\ results[i].filename = None
    /\ \A i \in 1..Len(results) :
           (results[i].html.kind = "html" /\ results[i].html.content = None) =>
               LET parsed == parse_and_convert_article(results[i].html, results[i].url)
               IN  parsed[1] # None /\ parsed[3] = None
    /\ fail_count >= Count(results, HasNoBody)
    /\ \A f \in DOMAIN files :
           \E i \in 1..Len(results) :
               /\ results[i].saved /\ results[i].filename = f
               /\ BodyPresent(results[i].html)
               /\ files[f].source = results[i].url

\* C9 witness: a page without content container was counted as a failure
\* and another article was saved
C9_Witness ==
    /\ \E i \in 1..Len(results) : results[i].html = NoContentHtml
    /\ \E i \in 1..Len(results) : results[i].saved
    /\ fail_count >= 1 /\ files # <<>>

\* C10: no fetch is issued right after another fetch, without a delay in
\* between.
C10_DelayBetweenFetches == ~back_to_back

\* the date written in the entry-date element's datetime attribute, None
\* when the element or the attribute is absent or the value does not parse
AttributeDate(html) ==
    IF html.hasTime /\ html.datetime # None
       /\ FromIsoFormat(ReplaceZ(html.datetime)) # NoDate
    THEN StrftimeYmd(FromIsoFormat(ReplaceZ(html.datetime)))
    ELSE None

\* C11: the publish date of a fetched page is the date of its entry-date
\* attribute when that is present and parseable; otherwise, the attribute
\* being absent or unparseable, it is the date of the /YYYY/MM/DD/ pattern
\* of the address, and it is absent only when both sources fail.
C11_DateFallsBackToAddress ==
    \A i \in 1..Len(results) :
        results[i].html.kind = "html" =>
            results[i].date = IF AttributeDate(results[i].html) # None
                              THEN AttributeDate(results[i].html)
                              ELSE UrlDate(results[i].url)

=============================================================================
